---------------------------- MODULE Spec2Model ----------------------------
(***************************************************************************)
(* Model of tvb/analyzers/node_coherence.py: the Hamming window generator, *)
(* the vectorised coherence() estimator, the reference estimator           *)
(* coherence_mlab() and NodeCoherence.result_shape().                      *)
(*                                                                         *)
(* The module is Python 2 code (numpy.sum(map(...)) at line 166, shapes    *)
(* built from nfft/2 + 1 at lines 80 and 156, nt / nfft used as a slice    *)
(* bound and as a reshape dimension at lines 107-110), so "/" between      *)
(* integers is floor division.                                             *)
(*                                                                         *)
(* Numbers are exact.  Window samples are integers in hundredths           *)
(* (0.54 -> 54, 1.0 -> 100); spectra are Gaussian integers <<re, im>> in   *)
(* the same unit; quotients are reduced fractions <<num, den>>; the        *)
(* results of a floating-point division by zero are the outcomes "inf"     *)
(* and "nan".  Rounding error is not modelled.  Arrays are records         *)
(* [shape, at, base] with 0-based index tuples, as in numpy.               *)
(***************************************************************************)
EXTENDS Integers, Sequences, FiniteSets

(***************************************************************************)
(* Bounds of the model.                                                    *)
(***************************************************************************)
MaxNt == 8          \* longest time axis
MaxAxis == 2        \* longest state-variable, node and mode axis
MaxCells == 16      \* most samples in an input array
MaxSpikes == 1      \* most samples off the background level of a series
MaxM == 7           \* longest window asked of hamming()
MaxNeg == 1         \* nfft and M range down to -MaxNeg
MaxNfft == 4        \* largest nfft

\* Sample values: a background level and the other level.
Vals == {0, 1}

\* Sample rates (Hz) of the time series.
SampleRates == {500, 1000}

\* Denominators d for which cos(2*pi*n/d) is rational for every n (Niven's
\* theorem): the window lengths whose samples are exact in hundredths.
ExactCosDen == {1, 2, 3, 4, 6}

\* Transform lengths whose twiddle factors exp(-2*pi*i*j/n) are Gaussian
\* integers, so that the DFT of integer data is exact.
ExactDFTLen == {1, 2, 4}

(***************************************************************************)
(* Exact arithmetic.                                                       *)
(***************************************************************************)
Abs(x) == IF x < 0 THEN -x ELSE x

RECURSIVE GCD(_, _)
GCD(a, b) == IF b = 0 THEN a ELSE GCD(b, a % b)

\* The fraction n/d (d # 0) in lowest terms with a positive denominator.
Frac(n, d) ==
    LET g == GCD(Abs(n), Abs(d))
        s == IF d < 0 THEN -1 ELSE 1
    IN  <<s * (n \div g), s * (d \div g)>>

FracAdd(p, q) == Frac(p[1] * q[2] + q[1] * p[2], p[2] * q[2])

\* Python 2 integer division and numpy's: floor of the quotient.
FloorDiv(a, b) == IF b > 0 THEN a \div b ELSE (-a) \div (-b)

\* Complex numbers <<re, im>>.
CMul(x, y) == <<x[1] * y[1] - x[2] * y[2], x[1] * y[2] + x[2] * y[1]>>
CAdd(x, y) == <<x[1] + y[1], x[2] + y[2]>>
CConj(x) == <<x[1], -x[2]>>
CScale(k, x) == <<k * x[1], k * x[2]>>

\* numpy.abs(z)**2 of a complex z.
AbsSq(z) == z[1] * z[1] + z[2] * z[2]

RECURSIVE SumSeq(_)
SumSeq(s) == IF s = << >> THEN 0 ELSE s[1] + SumSeq(Tail(s))

RECURSIVE CSumSeq(_)
CSumSeq(s) == IF s = << >> THEN <<0, 0>> ELSE CAdd(s[1], CSumSeq(Tail(s)))

(***************************************************************************)
(* Floating-point results: a finite complex rational, or the result of a   *)
(* division by zero.  A real result has im = <<0, 1>>.                     *)
(***************************************************************************)
Num(re, im) == [kind |-> "num", re |-> re, im |-> im]
Inf == [kind |-> "inf", re |-> <<0, 1>>, im |-> <<0, 1>>]
NaN == [kind |-> "nan", re |-> <<0, 1>>, im |-> <<0, 1>>]
One == Num(<<1, 1>>, <<0, 1>>)

\* x / d for a real x >= 0 and a complex (or real: d[2] = 0) divisor d.
\* IEEE: 0/0 is nan and x/0 is inf for x > 0; numpy warns and goes on.
Divide(x, d) ==
    IF d = <<0, 0>> THEN (IF x = 0 THEN NaN ELSE Inf)
    ELSE IF d[2] = 0 THEN Num(Frac(x, d[1]), <<0, 1>>)
    ELSE Num(Frac(x * d[1], AbsSq(d)), Frac(-(x * d[2]), AbsSq(d)))

\* IEEE addition: nan absorbs everything, inf absorbs the finite.
FAdd(a, b) ==
    IF a.kind = "nan" \/ b.kind = "nan" THEN NaN
    ELSE IF a.kind = "inf" \/ b.kind = "inf" THEN Inf
    ELSE Num(FracAdd(a.re, b.re), FracAdd(a.im, b.im))

\* a / k for a positive integer k.
FDivInt(a, k) ==
    IF a.kind # "num" THEN a
    ELSE Num(Frac(a.re[1], a.re[2] * k), Frac(a.im[1], a.im[2] * k))

RECURSIVE FSumSeq(_)
FSumSeq(s) ==
    IF s = << >> THEN Num(<<0, 1>>, <<0, 1>>) ELSE FAdd(s[1], FSumSeq(Tail(s)))

\* numpy's mean of a non-empty sequence of results.
FMean(s) == FDivInt(FSumSeq(s), Len(s))

(***************************************************************************)
(* numpy arrays: [shape |-> <<n1, ..., nk>>, at |-> [index tuples -> x],   *)
(* base |-> the buffer the array's memory belongs to].  A slice and a      *)
(* transpose are views of the same buffer; a reshape is a view where the   *)
(* layout allows it and is taken as one here, the case in which a write    *)
(* reaches the buffer viewed; copy() makes a buffer of its own.            *)
(***************************************************************************)
RECURSIVE Indices(_)
Indices(shape) ==
    IF shape = << >> THEN {<< >>}
    ELSE {<<i>> \o r : i \in 0..(shape[1] - 1), r \in Indices(Tail(shape))}

Front(s) == SubSeq(s, 1, Len(s) - 1)

\* Position of an index in C (row-major) order, and back.
RECURSIVE FlatIndex(_, _)
FlatIndex(shape, ix) ==
    IF shape = << >> THEN 0
    ELSE FlatIndex(Front(shape), Front(ix)) * shape[Len(shape)] + ix[Len(ix)]

RECURSIVE Unflatten(_, _)
Unflatten(shape, k) ==
    IF shape = << >> THEN << >>
    ELSE Append(Unflatten(Front(shape), k \div shape[Len(shape)]),
                k % shape[Len(shape)])

\* a[:n] along the first axis, for 0 <= n.
TakeTime(a, n) ==
    LET k == IF n < a.shape[1] THEN n ELSE a.shape[1]
        sh == <<k>> \o Tail(a.shape)
    IN  [shape |-> sh, at |-> [ix \in Indices(sh) |-> a.at[ix]], base |-> a.base]

\* a.copy()
Copy(a) == [a EXCEPT !.base = "own"]

\* a.transpose(axes), axes 0-based: axis k of the result is axis axes[k] of a.
Transpose(a, axes) ==
    LET sh == [k \in 1..Len(axes) |-> a.shape[axes[k] + 1]]
        src(ix) == [j \in 1..Len(axes) |->
                      ix[CHOOSE k \in 1..Len(axes) : axes[k] + 1 = j]]
    IN  [shape |-> sh, at |-> [ix \in Indices(sh) |-> a.at[src(ix)]],
         base |-> a.base]

\* a.reshape(shape): the same elements in the same C order.
Reshape(a, shape) ==
    [shape |-> shape,
     at |-> [ix \in Indices(shape) |->
               a.at[Unflatten(a.shape, FlatIndex(shape, ix))]],
     base |-> a.base]

(***************************************************************************)
(* hamming(M, sym), lines 58-74.                                           *)
(***************************************************************************)
\* 2 * cos(2*pi*n/d) for d in ExactCosDen.
Cos2(n, d) ==
    CASE d = 1 -> 2
      [] d = 2 -> <<2, -2>>[(n % 2) + 1]
      [] d = 3 -> <<2, -1, -1>>[(n % 3) + 1]
      [] d = 4 -> <<2, 0, -2, 0>>[(n % 4) + 1]
      [] d = 6 -> <<2, 1, -1, -2, -1, 1>>[(n % 6) + 1]

\* 0.54 - 0.46 * cos(2*pi*n/d) in hundredths.
HammingSample(n, d) == 54 - 23 * Cos2(n, d)

hammingKeepLast(M, sym) ==
    IF M < 1 THEN << >>
    ELSE IF M = 1 THEN <<100>>
    ELSE LET odd == M % 2
             M2 == IF ~sym /\ odd = 0 THEN M + 1 ELSE M
         IN  [n \in 1..M2 |-> HammingSample(n - 1, M2 - 1)]
hamming(M, sym) ==
    IF M < 1 THEN << >>
    ELSE IF M = 1 THEN <<100>>
    ELSE LET odd == M % 2
             M2 == IF ~sym /\ odd = 0 THEN M + 1 ELSE M
             w == [n \in 1..M2 |-> HammingSample(n - 1, M2 - 1)]
         IN  IF ~sym /\ odd = 0 THEN Front(w) ELSE w

\* The (M, sym) whose window is exact in hundredths.
HammingArgs ==
    {a \in ((-MaxNeg)..MaxM) \X BOOLEAN :
        \/ a[1] < 2
        \/ a[2] /\ (a[1] - 1) \in ExactCosDen
        \/ ~a[2] /\ a[1] % 2 = 1 /\ (a[1] - 1) \in ExactCosDen
        \/ ~a[2] /\ a[1] % 2 = 0 /\ a[1] \in ExactCosDen}

(***************************************************************************)
(* The steps of coherence(data, sample_rate, nfft, imag), lines 98-122.    *)
(***************************************************************************)
\* Lines 107-110: data[:nwin * nfft].copy().transpose((2, 1, 3, 0))
\*                    .reshape((nn, ns, nm, nwin, nfft))
SegmentAxesSwapped(a, nw, n) ==
    Reshape(Transpose(Copy(TakeTime(a, nw * n)), <<1, 2, 3, 0>>),
            <<a.shape[3], a.shape[2], a.shape[4], nw, n>>)
Segment(a, nw, n) ==
    Reshape(Transpose(Copy(TakeTime(a, nw * n)), <<2, 1, 3, 0>>),
            <<a.shape[3], a.shape[2], a.shape[4], nw, n>>)

\* Line 111: wins *= hamming(nfft), the window broadcast along the last axis.
Taper(w, n) ==
    [w EXCEPT !.at = [ix \in DOMAIN w.at |->
                        w.at[ix] * hamming(n, TRUE)[ix[Len(ix)] + 1]]]

\* What the in-place product of line 111 does to the caller's array: nothing
\* when wins is a buffer of its own, and the same product, written through
\* to the samples wins views, when wins shares the caller's buffer.
TaperWriteThrough(a, w, nw, n) ==
    IF w.base = "own" THEN a
    ELSE [a EXCEPT !.at = [ix \in DOMAIN a.at |->
             IF ix[1] < nw * n
             THEN a.at[ix] * hamming(n, TRUE)[(ix[1] % n) + 1]
             ELSE a.at[ix]]]

\* exp(-2*pi*i*j/n) for n in ExactDFTLen.
Twiddle(n, j) ==
    <<(<<1, 0>>), (<<0, -1>>), (<<-1, 0>>), (<<0, 1>>)>>[(((4 \div n) * j) % 4) + 1]

\* Line 112: numpy.fft.fft(wins), the DFT along the last axis.
FFT(w) ==
    LET n == w.shape[Len(w.shape)]
    IN  [shape |-> w.shape,
         at |-> [ix \in DOMAIN w.at |->
                   CSumSeq([t \in 1..n |->
                              CScale(w.at[Front(ix) \o <<t - 1>>],
                                     Twiddle(n, (ix[Len(ix)] * (t - 1)) % n))])],
         base |-> "own"]

\* Line 113: numpy.fft.fftfreq(n, 1e3 / rate): [0, 1, ..., (n-1)/2,
\* -(n/2), ..., -1] / (n * d), each k / (n * d) = k * rate / (n * 1000).
FftFreq(n, rate) ==
    LET N == ((n - 1) \div 2) + 1
    IN  [p \in 1..n |->
           Frac((IF p <= N THEN p - 1 ELSE p - 1 - n) * rate, n * 1000)]

\* Lines 115-117: G = F[:, newaxis] * F.conj(), shape (nn, nn, ns, nm, nwin,
\* nfft); with imag, G is replaced by its imaginary part (a real array).
CrossSpectrum(f, im) ==
    LET sh == <<f.shape[1]>> \o f.shape
    IN  [shape |-> sh,
         at |-> [ix \in Indices(sh) |->
                   LET g == CMul(f.at[<<ix[1]>> \o SubSeq(ix, 3, 6)],
                                 CConj(f.at[SubSeq(ix, 2, 6)]))
                   IN  IF im THEN <<g[2], 0>> ELSE g],
         base |-> "own"]

\* Line 118: dG = numpy.array([G[i, i] for i in range(nn)])
Diagonal(g) ==
    LET sh == Tail(g.shape)
    IN  [shape |-> sh,
         at |-> [ix \in Indices(sh) |-> g.at[<<ix[1]>> \o ix]],
         base |-> "own"]

\* The divisor of entry ix of G at line 119: (dG[:, newaxis] * dG)[ix].
Divisor(d, ix) ==
    CMul(d.at[<<ix[1]>> \o SubSeq(ix, 3, 6)], d.at[SubSeq(ix, 2, 6)])

\* Line 119: (numpy.abs(G)**2 / (dG[:, newaxis] * dG)).mean(axis=-2)
Normalise(g, d) ==
    LET sh == SubSeq(g.shape, 1, 4) \o <<g.shape[6]>>
        nw == g.shape[5]
    IN  [shape |-> sh,
         at |-> [ix \in Indices(sh) |->
                   FMean([k \in 1..nw |->
                            LET gx == SubSeq(ix, 1, 4) \o <<k - 1, ix[5]>>
                            IN  Divide(AbsSq(g.at[gx]), Divisor(d, gx))])],
         base |-> "own"]

\* Line 120: the positions (0-based, ascending) of the bins with fs > 0.
RECURSIVE PositiveBins(_, _)
PositiveBins(freqs, from) ==
    IF from > Len(freqs) THEN << >>
    ELSE (IF freqs[from][1] > 0 THEN <<from - 1>> ELSE << >>)
         \o PositiveBins(freqs, from + 1)

\* Line 122: numpy.transpose(C[..., mask], (4, 0, 1, 2, 3)), fs[mask]
Select(c, freqs) ==
    LET bins == PositiveBins(freqs, 1)
        sh == Front(c.shape) \o <<Len(bins)>>
        masked == [shape |-> sh,
                   at |-> [ix \in Indices(sh) |->
                             c.at[Front(ix) \o <<bins[ix[5] + 1]>>]],
                   base |-> "own"]
    IN  <<Transpose(masked, <<4, 0, 1, 2, 3>>),
          [p \in 1..Len(bins) |-> freqs[bins[p] + 1]]>>

(***************************************************************************)
(* NodeCoherence.result_shape(input_shape), lines 154-159.                 *)
(***************************************************************************)
result_shape(n, input_shape) ==
    LET freq_len == FloorDiv(n, 2) + 1
    IN  <<(<<freq_len, input_shape[3], input_shape[3], input_shape[2],
             input_shape[4]>>),
          (<<freq_len>>)>>

(***************************************************************************)
(* Inputs.                                                                 *)
(***************************************************************************)
Product(shape) == shape[1] * shape[2] * shape[3] * shape[4]

\* Shapes (nt, ns, nn, nm) of a 4-D time series.
Shapes4 ==
    {sh \in (1..MaxNt) \X (1..MaxAxis) \X (1..MaxAxis) \X (1..MaxAxis) :
        Product(sh) <= MaxCells}

\* Shapes with three and with five axes.
ShapesNot4 ==
    {<<t, a, b>> : t \in 1..2, a \in 1..MaxAxis, b \in 1..MaxAxis}
    \cup {<<t, 1, a, b, 1>> : t \in 1..2, a \in 1..MaxAxis, b \in 1..MaxAxis}

\* A constant series at the background level.
Flat(shape, level) ==
    [shape |-> shape, at |-> [ix \in Indices(shape) |-> level], base |-> "caller"]

\* The sets of at most k of the positions S.
RECURSIVE UpTo(_, _)
UpTo(S, k) ==
    IF k = 0 THEN {{}}
    ELSE UpTo(S, k - 1) \cup {T \cup {x} : T \in UpTo(S, k - 1), x \in S}

\* The series of a shape: the background level everywhere, but for at most
\* MaxSpikes samples at the other level.
Series(shape) ==
    {[shape |-> shape,
      at |-> [ix \in Indices(shape) |-> IF ix \in spikes THEN lv[2] ELSE lv[1]],
      base |-> "caller"] :
        lv \in {p \in Vals \X Vals : p[1] # p[2]},
        spikes \in UpTo(Indices(shape), MaxSpikes)}

NfftValues == (-MaxNeg)..MaxNfft

None == "None"

VARIABLES
    call,          \* the function called
    pc,            \* the position in it
    data,          \* the caller's array
    sample_rate, nfft, imag,    \* the arguments of the call
    M, sym,        \* the arguments of hamming
    shp,           \* coherence: nt, ns, nn, nm (line 100)
    nwin, wins, F, fs, G, dG, C,    \* coherence: its locals
    mdata,         \* coherence_mlab: what its name "data" is bound to
    mode, var,     \* coherence_mlab: the loop variables
    coh,           \* coherence_mlab: (var, mode) -> the input given to cohere
    ret,           \* the value returned
    err            \* the exception raised

args == <<call, data, sample_rate, nfft, imag, M, sym>>
cohLocals == <<shp, nwin, wins, F, fs, G, dG, C>>
mlabLocals == <<mdata, mode, var, coh>>
vars == <<args, pc, cohLocals, mlabLocals, ret, err>>

NoLocals ==
    /\ shp = None /\ nwin = None /\ wins = None /\ F = None /\ fs = None
    /\ G = None /\ dG = None /\ C = None
    /\ mdata = None /\ mode = None /\ var = None /\ coh = None
    /\ ret = None /\ err = None

\* A call of coherence() that gets past lines 100-105.
InitCoherence ==
    /\ call = "coherence" /\ pc = "unpack"
    /\ \E sh \in Shapes4 :
         /\ data \in Series(sh)
         /\ nfft \in {n \in NfftValues \cap ExactDFTLen : n <= sh[1]}
    /\ sample_rate \in SampleRates
    /\ imag \in BOOLEAN
    /\ M = None /\ sym = None

\* A call of coherence() that lines 100-105 end; the samples are not
\* read, so the series is a constant one.
InitCoherenceBad ==
    /\ call = "coherence" /\ pc = "unpack"
    /\ \E sh \in Shapes4 \cup ShapesNot4 :
         /\ data = Flat(sh, 1)
         /\ nfft \in {n \in NfftValues : Len(sh) # 4 \/ n <= 0 \/ sh[1] < n}
    /\ sample_rate \in SampleRates
    /\ imag \in BOOLEAN
    /\ M = None /\ sym = None

InitMlab ==
    /\ call = "coherence_mlab" /\ pc = "enter"
    /\ \/ \E sh \in Shapes4 : data \in Series(sh)
       \/ \E sh \in ShapesNot4 : data = Flat(sh, 1)
    /\ nfft \in NfftValues \cap ExactDFTLen
    /\ sample_rate \in SampleRates
    /\ imag = None /\ M = None /\ sym = None

InitResultShape ==
    /\ call = "result_shape" /\ pc = "enter"
    /\ \E sh \in Shapes4 : data = Flat(sh, 1)
    /\ nfft \in NfftValues
    /\ sample_rate = None /\ imag = None /\ M = None /\ sym = None

InitHamming ==
    /\ call = "hamming" /\ pc = "enter"
    /\ \E a \in HammingArgs : M = a[1] /\ sym = a[2]
    /\ data = None /\ nfft = None /\ sample_rate = None /\ imag = None

Init ==
    /\ \/ InitCoherence
       \/ InitCoherenceBad
       \/ InitMlab
       \/ InitResultShape
       \/ InitHamming
    /\ NoLocals

Raise(type, line, msg) ==
    /\ err' = [type |-> type, line |-> line, msg |-> msg]
    /\ pc' = "raised"

(***************************************************************************)
(* coherence(), lines 98-122.                                              *)
(***************************************************************************)
\* Line 100: nt, ns, nn, nm = data.shape
CohUnpack ==
    /\ call = "coherence" /\ pc = "unpack"
    /\ IF Len(data.shape) # 4
       THEN /\ Raise("ValueError", 100, <<"values to unpack">>)
            /\ UNCHANGED shp
       ELSE /\ shp' = data.shape
            /\ pc' = "check"
            /\ UNCHANGED err
    /\ UNCHANGED <<args, nwin, wins, F, fs, G, dG, C, mlabLocals, ret>>

\* Line 102: the test nwin < 1
TooFewWindowsOffByOne(nw) == nw <= 1
TooFewWindows(nw) == nw < 1

\* Lines 101-105: nwin = nt / nfft; if nwin < 1: raise ValueError(...)
CohCheck ==
    /\ call = "coherence" /\ pc = "check"
    /\ IF nfft = 0
       THEN /\ Raise("ZeroDivisionError", 101, <<"integer division by zero">>)
            /\ UNCHANGED nwin
       ELSE /\ nwin' = FloorDiv(shp[1], nfft)
            /\ IF TooFewWindows(nwin')
               THEN Raise("ValueError", 103,
                          <<"Not enough time points", shp[1], nfft>>)
               ELSE pc' = "segment" /\ UNCHANGED err
    /\ UNCHANGED <<args, shp, wins, F, fs, G, dG, C, mlabLocals, ret>>

\* Lines 107-110
CohSegment ==
    /\ call = "coherence" /\ pc = "segment"
    /\ wins' = Segment(data, nwin, nfft)
    /\ pc' = "transform"
    /\ UNCHANGED <<args, shp, nwin, F, fs, G, dG, C, mlabLocals, ret, err>>

\* Lines 111-113
CohTransform ==
    /\ call = "coherence" /\ pc = "transform"
    /\ wins' = Taper(wins, nfft)
    /\ data' = TaperWriteThrough(data, wins, nwin, nfft)
    /\ F' = FFT(wins')
    /\ fs' = FftFreq(nfft, sample_rate)
    /\ pc' = "normalise"
    /\ UNCHANGED <<call, sample_rate, nfft, imag, M, sym, shp, nwin, G, dG, C,
                   mlabLocals, ret, err>>

\* Lines 115-119
CohNormalise ==
    /\ call = "coherence" /\ pc = "normalise"
    /\ G' = CrossSpectrum(F, imag)
    /\ dG' = Diagonal(G')
    /\ C' = Normalise(G', dG')
    /\ pc' = "select"
    /\ UNCHANGED <<args, shp, nwin, wins, F, fs, mlabLocals, ret, err>>

\* Lines 120-122
CohReturn ==
    /\ call = "coherence" /\ pc = "select"
    /\ ret' = Select(C, fs)
    /\ pc' = "returned"
    /\ UNCHANGED <<args, cohLocals, mlabLocals, err>>

(***************************************************************************)
(* coherence_mlab(data, sample_rate, nfft), lines 77-95.  mlab.cohere is   *)
(* matplotlib's: coh records, for each (var, mode), the array whose        *)
(* columns the calls of line 89 are given.                                 *)
(***************************************************************************)
\* a[:, v, :, m] of a 4-D array
Slice2(a, v, m) ==
    LET sh == <<a.shape[1], a.shape[3]>>
    IN  [shape |-> sh,
         at |-> [ix \in Indices(sh) |-> a.at[<<ix[1], v, ix[2], m>>]],
         base |-> a.base]

\* Line 86: a -= a.mean(axis=0)[numpy.newaxis, :] of a 2-D array
Demean(a) ==
    LET nt == a.shape[1]
        colsum(n) == SumSeq([t \in 1..nt |-> a.at[<<t - 1, n>>]])
    IN  [a EXCEPT !.at = [ix \in DOMAIN a.at |->
                            Frac(nt * a.at[ix] - colsum(ix[2]), nt)]]

\* Lines 78-82
MlabEnter ==
    /\ call = "coherence_mlab" /\ pc = "enter"
    /\ IF Len(data.shape) # 4
       THEN /\ Raise("ValueError", 78, <<"values to unpack">>)
            /\ UNCHANGED <<shp, mlabLocals>>
       ELSE /\ shp' = data.shape
            /\ coh' = [shape |-> <<FloorDiv(nfft, 2) + 1, data.shape[3],
                                   data.shape[3], data.shape[2], data.shape[4]>>,
                       given |-> [vm \in (0..(data.shape[2] - 1))
                                         \X (0..(data.shape[4] - 1)) |-> None]]
            /\ mdata' = data
            /\ mode' = 0 /\ var' = 0
            /\ pc' = "slice"
            /\ UNCHANGED err
    /\ UNCHANGED <<args, nwin, wins, F, fs, G, dG, C, ret>>

\* Line 85: data = data[:, var, :, mode].copy()
MlabSlice ==
    /\ call = "coherence_mlab" /\ pc = "slice"
    /\ IF Len(mdata.shape) # 4
       THEN /\ Raise("IndexError", 85, <<"too many indices">>)
            /\ UNCHANGED mdata
       ELSE /\ mdata' = Copy(Slice2(mdata, var, mode))
            /\ pc' = "cohere"
            /\ UNCHANGED err
    /\ UNCHANGED <<args, cohLocals, mode, var, coh, ret>>

\* Lines 86-94, and the step of the loops of lines 83-84
MlabCohere ==
    /\ call = "coherence_mlab" /\ pc = "cohere"
    /\ mdata' = Demean(mdata)
    /\ coh' = [coh EXCEPT !.given[<<var, mode>>] = mdata']
    /\ IF var + 1 < shp[2]
       THEN var' = var + 1 /\ pc' = "slice" /\ UNCHANGED mode
       ELSE IF mode + 1 < shp[4]
            THEN mode' = mode + 1 /\ var' = 0 /\ pc' = "slice"
            ELSE pc' = "return" /\ UNCHANGED <<mode, var>>
    /\ UNCHANGED <<args, cohLocals, ret, err>>

\* Line 95
MlabReturn ==
    /\ call = "coherence_mlab" /\ pc = "return"
    /\ ret' = <<coh, "freq">>
    /\ pc' = "returned"
    /\ UNCHANGED <<args, cohLocals, mlabLocals, err>>

(***************************************************************************)
(* NodeCoherence.result_shape() and hamming().                             *)
(***************************************************************************)
ResultShape ==
    /\ call = "result_shape" /\ pc = "enter"
    /\ ret' = result_shape(nfft, data.shape)
    /\ pc' = "returned"
    /\ UNCHANGED <<args, cohLocals, mlabLocals, err>>

Hamming ==
    /\ call = "hamming" /\ pc = "enter"
    /\ ret' = hamming(M, sym)
    /\ pc' = "returned"
    /\ UNCHANGED <<args, cohLocals, mlabLocals, err>>

Next ==
    \/ CohUnpack
    \/ CohCheck
    \/ CohSegment
    \/ CohTransform
    \/ CohNormalise
    \/ CohReturn
    \/ MlabEnter
    \/ MlabSlice
    \/ MlabCohere
    \/ MlabReturn
    \/ ResultShape
    \/ Hamming

Spec == Init /\ [][Next]_vars

(***************************************************************************)
(* Properties.                                                             *)
(***************************************************************************)
Coherence4D == call = "coherence" /\ Len(data.shape) = 4
Returned == pc = "returned"
Raised == pc = "raised"
NoTransformWork ==
    wins = None /\ F = None /\ fs = None /\ G = None /\ dG = None /\ C = None

\* The exception of lines 103-105 for nt samples and a window of n.
NotEnoughTimePoints(nt, n) ==
    [type |-> "ValueError", line |-> 103,
     msg |-> <<"Not enough time points", nt, n>>]

\* C1: with a 4-D input and nfft > 0, coherence() ends in the error of
\* lines 103-105, naming nt and nfft, once it is past line 102 whenever
\* nt < nfft, with no segment, window or spectrum computed; whenever
\* nt >= nfft it never raises that error.
C1_InsufficientData ==
    (Coherence4D /\ nfft > 0) =>
        /\ (data.shape[1] < nfft /\ pc \notin {"unpack", "check"}) =>
              /\ Raised
              /\ err = NotEnoughTimePoints(data.shape[1], nfft)
              /\ NoTransformWork /\ ret = None
        /\ data.shape[1] >= nfft => (~Raised /\ err = None)

C1_Witness ==
    /\ Coherence4D /\ nfft > 0 /\ data.shape[1] < nfft
    /\ Raised /\ err = NotEnoughTimePoints(data.shape[1], nfft)

\* C2: coherence() ends in the shape-mismatch error (the only error the
\* code raises about the shape: the unpacking of line 100) whenever the
\* input has not four axes or nfft <= 0, before any transform work; a
\* non-positive nfft is never reported by the error of lines 103-105 or by
\* any other exception, and never gives a result.
C2_ShapeMismatch ==
    (call = "coherence" /\ (Len(data.shape) # 4 \/ nfft <= 0)) =>
        /\ ~Returned
        /\ NoTransformWork
        /\ Raised => (err.type = "ValueError" /\ err.line = 100)

\* C3: the array coherence() returns has the shape result_shape() reports
\* for the input's shape, (P, nn, nn, ns, nm), and the frequency axis
\* returned has the length result_shape() reports.
C3_ShapeLaw ==
    (call = "coherence" /\ Returned) =>
        /\ ret[1].shape = result_shape(nfft, data.shape)[1]
        /\ <<Len(ret[2])>> = result_shape(nfft, data.shape)[2]

\* The entries of the array coherence() returns: (f, i, j, s, m).
CohReturned == call = "coherence" /\ Returned
Entry(f, i, j, s, m) == ret[1].at[<<f, i, j, s, m>>]
Bins == 0..(ret[1].shape[1] - 1)
Nodes == 0..(shp[3] - 1)
SVars == 0..(shp[2] - 1)
Modes == 0..(shp[4] - 1)

\* C4: every diagonal entry C[f, i, i, s, m] that coherence() returns is
\* the number 1, for every input and either value of imag.
C4_SelfCoherence ==
    CohReturned =>
        \A f \in Bins, i \in Nodes, s \in SVars, m \in Modes :
            Entry(f, i, i, s, m) = One

\* C5: every entry coherence() returns is a real number in [0, 1], and no
\* quotient of line 119 has the divisor dG_i * dG_j = 0.
C5_Bounded ==
    /\ CohReturned =>
          \A ix \in DOMAIN ret[1].at :
              LET x == ret[1].at[ix]
              IN  /\ x.kind = "num"
                  /\ x.im[1] = 0
                  /\ 0 <= x.re[1] /\ x.re[1] <= x.re[2]
    /\ (call = "coherence" /\ pc \in {"select", "returned"}) =>
          \A ix \in DOMAIN G.at : Divisor(dG, ix) # <<0, 0>>

\* Floating-point equality: a nan is equal to nothing, itself included.
FloatEq(x, y) == x.kind # "nan" /\ y.kind # "nan" /\ x = y

\* C6: C[f, i, j, s, m] == C[f, j, i, s, m] for every entry coherence()
\* returns, for every input and either value of imag.
C6_Symmetry ==
    CohReturned =>
        \A f \in Bins, i \in Nodes, j \in Nodes, s \in SVars, m \in Modes :
            FloatEq(Entry(f, i, j, s, m), Entry(f, j, i, s, m))

\* The spectra of nodes i and j in bin b are linearly unrelated over the
\* segments: the Cauchy-Schwarz inequality is strict,
\* |sum_k F_i conj(F_j)|^2 < (sum_k |F_i|^2) * (sum_k |F_j|^2), which is when
\* the coherence of the averaged spectra is below 1.
Unrelated(b, i, j, s, m) ==
    LET Fi(k) == F.at[<<i, s, m, k - 1, b>>]
        Fj(k) == F.at[<<j, s, m, k - 1, b>>]
        cross == CSumSeq([k \in 1..nwin |-> CMul(Fi(k), CConj(Fj(k)))])
        pi == SumSeq([k \in 1..nwin |-> AbsSq(Fi(k))])
        pj == SumSeq([k \in 1..nwin |-> AbsSq(Fj(k))])
    IN  AbsSq(cross) < pi * pj

\* C7: without imag, the entry coherence() returns for two nodes whose
\* spectra are unrelated over the segments is a number strictly below 1,
\* the value of identical copies.
C7_UnrelatedBelowOne ==
    (CohReturned /\ ~imag) =>
        \A f \in Bins, i \in Nodes, j \in Nodes, s \in SVars, m \in Modes :
            LET b == PositiveBins(fs, 1)[f + 1]
            IN  Unrelated(b, i, j, s, m) =>
                  /\ Entry(f, i, j, s, m).kind = "num"
                  /\ Entry(f, i, j, s, m).re[1] < Entry(f, i, j, s, m).re[2]

\* C8: hamming(M, sym) returns the empty sequence for M < 1, [1.0] for
\* M = 1 and otherwise M samples; sample n is 0.54 - 0.46*cos(2*pi*n/(M-1))
\* with sym or an odd M, and without sym and with an even M the result is
\* hamming(M + 1, True) less its last sample: sample n is
\* 0.54 - 0.46*cos(2*pi*n/M).
C8_WindowIdentity ==
    (call = "hamming" /\ Returned) =>
        /\ M < 1 => ret = << >>
        /\ M = 1 => ret = <<100>>
        /\ M > 1 =>
              /\ Len(ret) = M
              /\ (sym \/ M % 2 = 1) =>
                    \A n \in 0..(M - 1) : ret[n + 1] = HammingSample(n, M - 1)
              /\ (~sym /\ M % 2 = 0) =>
                    /\ ret = Front(hamming(M + 1, TRUE))
                    /\ Len(hamming(M + 1, TRUE)) = M + 1
                    /\ \A n \in 0..(M - 1) : ret[n + 1] = HammingSample(n, M)

C8_Witness ==
    call = "hamming" /\ Returned /\ ~sym /\ M = 4 /\ ret = <<8, 54, 100, 54>>

\* The caller's series with one of the samples from time n on changed.
TailChanged(n) ==
    {[data EXCEPT !.at[ix] = v] :
        ix \in {jx \in DOMAIN data.at : jx[1] >= n}, v \in Vals}

\* C9 (state part): after lines 101-110 nwin = floor(nt / nfft) and
\* wins[n, s, m, k, t] = data[k*nfft + t, s, n, m] for every node n, state
\* variable s, mode m, segment k < nwin and offset t < nfft; the pairs
\* (k, t) number the samples 0 .. nwin*nfft - 1 once each, and the samples
\* from nwin*nfft on do not change wins.
C9_Segments ==
    (call = "coherence" /\ pc = "transform") =>
        /\ nwin * nfft <= shp[1] /\ shp[1] < (nwin + 1) * nfft
        /\ wins.shape = <<shp[3], shp[2], shp[4], nwin, nfft>>
        /\ \A n \in Nodes, s \in SVars, m \in Modes :
              \A k \in 0..(nwin - 1), t \in 0..(nfft - 1) :
                  wins.at[<<n, s, m, k, t>>] = data.at[<<k * nfft + t, s, n, m>>]
        /\ \A u \in 0..(nwin * nfft - 1) :
              Cardinality({kt \in (0..(nwin - 1)) \X (0..(nfft - 1)) :
                              kt[1] * nfft + kt[2] = u}) = 1
        /\ \A d \in TailChanged(nwin * nfft) : Segment(d, nwin, nfft) = wins

\* C9: the segmentation of coherence(), and no step of coherence() changes
\* the caller's array.
C9_Segmentation ==
    /\ []C9_Segments
    /\ [][call = "coherence" => data' = data]_vars

C9_Witness ==
    /\ call = "coherence" /\ pc = "normalise"
    /\ nwin = 2 /\ nfft = 2 /\ shp = <<5, 1, 2, 1>>
    /\ data.at[<<4, 0, 1, 0>>] = 1 /\ data.at[<<0, 0, 0, 0>>] = 0
    /\ wins.shape = <<2, 1, 1, 2, 2>>
    /\ wins.base = "own" /\ data.base = "caller"

\* C10: every call of coherence_mlab() on a 4-D input goes through all its
\* nsvar * nmode iterations, none raising, and each iteration (var, mode)
\* takes its slice [:, var, :, mode] from the caller's 4-D series: what
\* cohere is given for (var, mode) is that slice, less its column means.
C10_MlabReadsOriginal ==
    (call = "coherence_mlab" /\ Len(data.shape) = 4) =>
        /\ ~Raised
        /\ Returned =>
              \A v \in SVars, m \in Modes :
                  ret[1].given[<<v, m>>].at = Demean(Slice2(data, v, m)).at

=============================================================================
